---------------------------- MODULE Spec2Model ----------------------------
(***************************************************************************)
(* Multi-session connection manager of the WhatsApp gateway (app.js and    *)
(* server.js, both held in src/unnamed/part_000).                          *)
(*                                                                         *)
(* The gateway runs on a single-threaded event loop.  A handler runs       *)
(* atomically from one `await` to the next; every `await` is a point where *)
(* other handlers interleave.  Each handler invocation in flight is a      *)
(* record of the bag `tasks`, with `pc` naming the await it is parked on.  *)
(* A store write is two steps where the code after it touches the registry,*)
(* the timers or the session-status events: the write lands in the table   *)
(* (pc "x" -> "x_ret"), and later the handler resumes.                     *)
(*                                                                         *)
(* The messaging protocol is the environment: a handle, once made, issues  *)
(* pairing artifacts, opens and closes as it likes, and accepts or rejects *)
(* each send.                                                              *)
(***************************************************************************)
EXTENDS Integers, Sequences, FiniteSets, Bags, TLC

\* ------------------------------------------------------------------ bounds
\* Handler invocations in flight at once.
MaxTasks == 2
\* Protocol handles made in one run (makeWASocket calls).
MaxSocks == 2
\* External commands dispatched in one run.
MaxCmds == 2
\* Protocol events (connection.update) emitted in one run.
MaxEvents == 1
\* Longest recipients list of a broadcast.
MaxRecipients == 2
\* Longest address handed to formatJid on its own.
MaxLen == 3
\* Largest `limit` a history request names.
MaxLimit == 2
\* Rows the messages table holds when a history is requested of it, or when
\* the protocol delivers messages.
MaxRows == 3
\* Longest batch of messages the protocol delivers in one messages.upsert.
MaxBatch == 2

\* ------------------------------------------------------------- value sets
Variants == {"app", "server"}
\* Every sessionId a run may name: the registry and the tables are keyed by it.
AllIds == {"main", "other"}
\* 'main' is the default sessionId of every handler.
SessionIds == {"main"}

\* DisconnectReason.loggedOut against any other close code.
CloseCodes == {"loggedOut", "other"}

\* A string is a sequence of characters.  The canonical suffixes
\* '@s.whatsapp.net' and '@g.us' are shortened to two characters each.
UserSuffix == <<"@", "s">>
GroupSuffix == <<"@", "g">>
Digits == {"0", "8"}
\* The addresses a command may name: the empty string, a phone number as typed,
\* a canonical group address.
Recipients == {<<>>, <<"0", "-", "8">>, <<"8", "@", "g">>}

\* ------------------------------------------------------------------ state
VARIABLES
    variant,    \* which entry file runs: app.js or server.js
    boot,       \* startup: the outcome of the store initialization, and whether
                \* server.listen has been called
    creds,      \* the credential store: sessionId -> an entry is held
    SESSIONS,   \* the in-memory registry: sessionId -> entry
    socks,      \* the protocol handles made so far: handle k is socks[k], with
                \* its state, the last status its listener announced and whether
                \* its listener holds a socketClient
    sessions,   \* the `sessions` table: sessionId -> row
    messages,   \* the `messages` table, in insertion (id) order
    timers,     \* pending reconnect setTimeout callbacks per sessionId
    tasks,      \* handler invocations parked on an await
    ncmd,       \* commands dispatched so far
    nev,        \* protocol events emitted so far
    wire,       \* history: the sock.sendMessage calls made, in call order
    loggedOut,  \* history: a logout completed and no start command came since
    last        \* the step just taken: its operation and what it emitted

vars == <<variant, boot, creds, SESSIONS, socks, sessions, messages, timers, tasks, ncmd, nev,
          wire, loggedOut, last>>

\* No pairing artifact (`lastQr: null`).  An artifact is named by the handle
\* that issued it and its number among that handle's artifacts.
NoQr == [sock |-> 0, no |-> 0]
\* No registry entry (SESSIONS[sessionId] is undefined).
NoEntry == [sock |-> 0, lastQr |-> NoQr, createdAt |-> 0]
\* No row in the sessions table.
NoRow == [status |-> "absent", phone |-> "null"]

\* Startup is over: the tables exist and the server listens.
Booted == [db |-> "ok", listening |-> TRUE]

\* `SESSIONS[sessionId] && SESSIONS[sessionId].sock`
Live(s) == SESSIONS[s].sock # 0

\* ------------------------------------------------------------ the stores
\* A sessionStore.upsert that updates a row that is there and inserts none.
upsert_UpdateOnly(tbl, sessionId, phone, status) ==
    IF tbl[sessionId] = NoRow THEN tbl
    ELSE [tbl EXCEPT ![sessionId] = [status |-> status, phone |-> phone]]

\* sessionStore.upsert: INSERT ... ON DUPLICATE KEY UPDATE phone_number, status.
upsert(tbl, sessionId, phone, status) ==
    [tbl EXCEPT ![sessionId] = [status |-> status, phone |-> phone]]

\* sessionStore.updateStatus: UPDATE sessions SET status=? WHERE session_id=?.
updateStatus(tbl, sessionId, status) ==
    IF tbl[sessionId] = NoRow THEN tbl
    ELSE [tbl EXCEPT ![sessionId].status = status]

\* sessionStore.setPhone (server.js): UPDATE sessions SET phone_number=?.
setPhone(tbl, sessionId, phone) ==
    IF tbl[sessionId] = NoRow THEN tbl
    ELSE [tbl EXCEPT ![sessionId].phone = phone]

\* messageStore.insert that leaves the direction to its default, 'in'.
insert_DefaultDirection(log, sessionId, direction, to) ==
    Append(log, [sessionId |-> sessionId, direction |-> "in", to |-> to])

\* messageStore.insert: one appended row.
insert(log, sessionId, direction, to) ==
    Append(log, [sessionId |-> sessionId, direction |-> direction, to |-> to])

\* The first n entries of a sequence (LIMIT n).
Take(seq, n) == SubSeq(seq, 1, IF n < Len(seq) THEN n ELSE Len(seq))

\* A sequence back to front (ORDER BY id DESC of rows held in id order).
Reverse(seq) == [i \in 1..Len(seq) |-> seq[Len(seq) + 1 - i]]

\* messageStore.history (app.js):
\* SELECT * FROM messages WHERE session_id=? ORDER BY id DESC LIMIT ?.
history(log, sessionId, limit) ==
    Take(Reverse(SelectSeq(log, LAMBDA row : row.sessionId = sessionId)), limit)

\* messageStore.list (server.js): SELECT * FROM messages ORDER BY created_at
\* DESC LIMIT ?.  created_at is a TIMESTAMP of one-second resolution that the
\* table does not otherwise record: rows of one second come in any order, so
\* every order of the rows is one the query may return.
list(log, limit) ==
    {Take([i \in 1..Len(log) |-> log[p[i]]], limit) : p \in Permutations(1..Len(log))}

\* ------------------------------------------------------------- formatJid
EndsWith(s, suf) ==
    /\ Len(s) >= Len(suf)
    /\ SubSeq(s, Len(s) - Len(suf) + 1, Len(s)) = suf

RECURSIVE TrimLeft(_)
TrimLeft(s) == IF s # <<>> /\ Head(s) = " " THEN TrimLeft(Tail(s)) ELSE s

RECURSIVE TrimRight(_)
TrimRight(s) ==
    IF s # <<>> /\ s[Len(s)] = " " THEN TrimRight(SubSeq(s, 1, Len(s) - 1)) ELSE s

\* String.prototype.trim
Trim(s) == TrimRight(TrimLeft(s))

\* s.replace(/[^0-9]/g, '')
RECURSIVE OnlyDigits(_)
OnlyDigits(s) ==
    IF s = <<>> THEN <<>>
    ELSE IF Head(s) \in Digits THEN <<Head(s)>> \o OnlyDigits(Tail(s))
    ELSE OnlyDigits(Tail(s))

\* `if (!numberOrJid) throw new Error('missing number/jid')`
formatJidThrows(numberOrJid) == numberOrJid = <<>>

\* formatJid that appends the suffix to whatever it is given.
formatJid_AlwaysSuffix(numberOrJid) == Trim(numberOrJid) \o UserSuffix

formatJid(numberOrJid) ==
    LET s == Trim(numberOrJid) IN
    IF EndsWith(s, UserSuffix) \/ EndsWith(s, GroupSuffix) THEN s
    ELSE OnlyDigits(s) \o UserSuffix

\* ------------------------------------------------------- tasks and events
Task(kind, sessionId, pc, sock, arg) ==
    [kind |-> kind, sid |-> sessionId, pc |-> pc, sock |-> sock, arg |-> arg,
     nums |-> <<>>, i |-> 0, ok |-> 0, log |-> <<>>]

Put(b, t) == b (+) SetToBag({t})
Del(b, t) == b (-) SetToBag({t})
Swap(b, t, u) == Put(Del(b, t), u)

Parked(kind, pc) == {t \in BagToSet(tasks) : t.kind = kind /\ t.pc = pc}

\* An emitted socket.io event: to the caller's socket or to every observer.
\* `val` is a tuple headed by a string; `jid` is the address the event names.
Ev(to, ev, sessionId, val) ==
    [to |-> to, ev |-> ev, sid |-> sessionId, val |-> <<val>>, jid |-> <<>>]

\* The step just taken: `out` is what it emitted; a handler that ends hands
\* over its recipients list and everything it sent to its caller.  `req` is the
\* payload of the command a dispatch step took in, `arg` the outcome an ended
\* handler carried.
Step(op, sessionId, out) ==
    [op |-> op, sid |-> sessionId, out |-> out, nums |-> <<>>, log |-> <<>>,
     req |-> <<>>, arg |-> ""]

\* The dispatch step of a command with payload `req`.
Cmd(op, sessionId, out, req) == [Step(op, sessionId, out) EXCEPT !.req = req]

\* The event name of an error reply: 'error-message' (app.js), 'error' (server.js).
ErrorEv == IF variant = "app" THEN "error-message" ELSE "error"

\* startBaileysSession calls that passed the registry check and have not yet
\* made their handle.
Starting == {t \in BagToSet(tasks) : t.kind = "start" /\ t.pc \in {"upsert", "creds", "version"}}

NumStarting == BagCardinality([t \in Starting |-> tasks[t]])

FreeSlot == BagCardinality(tasks) < MaxTasks
\* A startBaileysSession call that passes the registry check will make a handle.
FreeSock == Len(socks) + NumStarting < MaxSocks

\* -------------------------------------------------------------------- Init
Init ==
    /\ variant \in Variants
    /\ boot = Booted
    /\ creds = [s \in AllIds |-> FALSE]
    /\ SESSIONS = [s \in AllIds |-> NoEntry]
    /\ socks = <<>>
    /\ sessions = [s \in AllIds |-> NoRow]
    /\ messages = <<>>
    /\ timers = [s \in AllIds |-> 0]
    /\ tasks = EmptyBag
    /\ ncmd = 0
    /\ nev = 0
    /\ wire = <<>>
    /\ loggedOut = [s \in AllIds |-> FALSE]
    /\ last = Step("init", "main", <<>>)

\* ------------------------------------------------- startBaileysSession
\* startBaileysSession without its first line, the registry check.
startBaileysSession_NoCheck(sessionId, origin) ==
    Task("start", sessionId, "upsert", 0, origin)

\* startBaileysSession up to its first await: with a live entry it returns the
\* stored handle (pc "return"); otherwise it parks on its upsert.  `origin` is
\* the caller: "cmd" (start-session; "cmd-live" once the call returned the stored
\* handle), "qr-cmd" (request-qr), "timer" (the reconnect setTimeout).
startBaileysSession(sessionId, origin) ==
    IF Live(sessionId)
    THEN Task("start", sessionId, "return", SESSIONS[sessionId].sock, origin)
    ELSE Task("start", sessionId, "upsert", 0, origin)

\* socket.on('start-session'): the handler up to its first await.  When
\* startBaileysSession returns at once, the handler goes on to its own upsert.
StartSession(s) ==
    LET r == startBaileysSession(s, "cmd") IN
    /\ boot.listening
    /\ ncmd < MaxCmds
    /\ FreeSlot
    /\ r.pc = "return" \/ FreeSock
    /\ ncmd' = ncmd + 1
    /\ tasks' = IF r.pc = "return"
                THEN Put(tasks, [r EXCEPT !.pc = "h_upsert", !.arg = "cmd-live"])
                ELSE Put(tasks, r)
    /\ loggedOut' = [loggedOut EXCEPT ![s] = FALSE]
    /\ last' = Step("start-session", s, <<>>)
    /\ UNCHANGED <<variant, boot, creds, SESSIONS, socks, sessions, messages, timers, nev, wire>>

\* `await sessionStore.upsert(sessionId, { status: 'loading' })` lands; the call
\* goes on to load the credentials.
StartUpsert ==
    \E t \in Parked("start", "upsert") :
        /\ sessions' = upsert(sessions, t.sid, "null", "loading")
        /\ tasks' = Swap(tasks, t, [t EXCEPT !.pc = "creds"])
        /\ last' = Step("start:upsert", t.sid, <<>>)
        /\ UNCHANGED <<variant, boot, creds, SESSIONS, socks, messages, timers, ncmd, nev, wire, loggedOut>>

\* `await useMySQLAuthState(pool, sessionId)` / `await useMultiFileAuthState(..)`
\* returns; the call goes on to fetch the protocol version.
StartCreds ==
    \E t \in Parked("start", "creds") :
        /\ tasks' = Swap(tasks, t, [t EXCEPT !.pc = "version"])
        /\ last' = Step("start:creds", t.sid, <<>>)
        /\ UNCHANGED <<variant, boot, creds, SESSIONS, socks, sessions, messages, timers, ncmd, nev,
                       wire, loggedOut>>

\* startBaileysSession throws: its upsert fails (the store is down) or the
\* credentials cannot be loaded.  The start-session and request-qr handlers
\* catch it and reply the error; the reconnect timer's `.catch(logger.error)`
\* logs it.
\* Either way the call is over.  `req` names the await that threw.
StartFails ==
    \E t \in Parked("start", "upsert") \cup Parked("start", "creds") :
        /\ tasks' = Del(tasks, t)
        /\ last' = [Step("start:throws", t.sid,
                         IF t.arg \in {"cmd", "qr-cmd"}
                         THEN <<Ev("caller", ErrorEv, t.sid, "start failed")>> ELSE <<>>)
                       EXCEPT !.arg = t.arg, !.req = <<t.pc>>]
        /\ UNCHANGED <<variant, boot, creds, SESSIONS, socks, sessions, messages, timers, ncmd, nev,
                       wire, loggedOut>>

\* The registry entry written once the handle is made.
NewEntry(k) == [sock |-> k, lastQr |-> NoQr, createdAt |-> k]

\* Whether a startBaileysSession call of this origin is given a socketClient:
\* the commands pass their socket; the reconnect timer of app.js passes none,
\* that of server.js passes on the socketClient of the closed handle, which
\* goes back to a command's.
HasClient(origin) == origin # "timer" \/ variant = "server"

\* `await fetchLatestBaileysVersion().catch(..)` returns (or falls back): the
\* handle is made and stored, the listeners are registered, the call returns.
\* A start-session handler then issues its own upsert.
StartVersion ==
    \E t \in Parked("start", "version") :
        LET k == Len(socks) + 1 IN
        /\ socks' = Append(socks, [sid |-> t.sid, st |-> "connecting", told |-> "none",
                                   client |-> HasClient(t.arg), qrs |-> 0])
        /\ SESSIONS' = [SESSIONS EXCEPT ![t.sid] = NewEntry(k)]
        /\ tasks' = IF t.arg = "cmd"
                    THEN Swap(tasks, t, [t EXCEPT !.pc = "h_upsert", !.sock = k])
                    ELSE Del(tasks, t)
        /\ last' = Step("start:make", t.sid, <<>>)
        /\ UNCHANGED <<variant, boot, creds, sessions, messages, timers, ncmd, nev, wire, loggedOut>>

\* start-session: `await sessionStore.upsert(sessionId, { status: 'loading' })`
\* after startBaileysSession returned: the write lands.
HandlerUpsert ==
    \E t \in Parked("start", "h_upsert") :
        /\ sessions' = upsert(sessions, t.sid, "null", "loading")
        /\ tasks' = Swap(tasks, t, [t EXCEPT !.pc = "h_upsert_ret"])
        /\ last' = Step("start-session:upsert", t.sid, <<>>)
        /\ UNCHANGED <<variant, boot, creds, SESSIONS, socks, messages, timers, ncmd, nev, wire, loggedOut>>

\* start-session resumes: socket.emit('session', loading); sessionStore.list().
HandlerEmit ==
    \E t \in Parked("start", "h_upsert_ret") :
        /\ tasks' = Swap(tasks, t, [t EXCEPT !.pc = "h_list"])
        /\ last' = Step("start-session:emit", t.sid,
                        <<Ev("caller", "session", t.sid, "loading")>>)
        /\ UNCHANGED <<variant, boot, creds, SESSIONS, socks, sessions, messages, timers, ncmd, nev,
                       wire, loggedOut>>

\* start-session: the list returns, socket.emit('sessions-list'); the handler ends.
HandlerList ==
    \E t \in Parked("start", "h_list") :
        /\ tasks' = Del(tasks, t)
        /\ last' = Step("start-session:done", t.sid,
                        <<Ev("caller", "sessions-list", t.sid, "rows")>>)
        /\ UNCHANGED <<variant, boot, creds, SESSIONS, socks, sessions, messages, timers, ncmd, nev,
                       wire, loggedOut>>

\* The reconnect timer of the close handler fires:
\* `startBaileysSession(sessionId).catch(logger.error)`.
TimerFire(s) ==
    LET r == startBaileysSession(s, "timer") IN
    /\ timers[s] > 0
    /\ r.pc = "return" \/ (FreeSlot /\ FreeSock)
    /\ timers' = [timers EXCEPT ![s] = @ - 1]
    /\ tasks' = IF r.pc = "return" THEN tasks ELSE Put(tasks, r)
    /\ last' = Step("timer", s, <<>>)
    /\ UNCHANGED <<variant, boot, creds, SESSIONS, socks, sessions, messages, ncmd, nev, wire, loggedOut>>

\* ------------------------------------------------------------ request-qr
\* socket.emit('qr', { sessionId, qr }) of artifact `qr`.
QrEv(sessionId, qr) ==
    [to |-> "caller", ev |-> "qr", sid |-> sessionId, val |-> <<"qr", qr.sock, qr.no>>,
     jid |-> <<>>]

\* A request-qr that never finds a cached artifact.
Cached_Never(sessionId) == FALSE

\* `s && s.lastQr`
Cached(sessionId) == SESSIONS[sessionId].lastQr # NoQr

\* socket.on('request-qr'): the cached artifact is replied, or
\* startBaileysSession is called (server.js awaits it, app.js does not).
RequestQr(s) ==
    LET r == startBaileysSession(s, "qr-cmd") IN
    /\ boot.listening
    /\ ncmd < MaxCmds
    /\ ncmd' = ncmd + 1
    /\ IF Cached(s)
       THEN /\ last' = Cmd("request-qr", s, <<QrEv(s, SESSIONS[s].lastQr)>>, <<>>)
            /\ tasks' = tasks
       ELSE /\ r.pc = "return" \/ (FreeSlot /\ FreeSock)
            /\ tasks' = IF r.pc = "return" THEN tasks ELSE Put(tasks, r)
            /\ last' = Cmd("request-qr", s, <<>>, <<>>)
    /\ UNCHANGED <<variant, boot, creds, SESSIONS, socks, sessions, messages, timers, nev, wire,
                   loggedOut>>

\* ------------------------------------------- connection.update handler
\* The handle issues its next pairing artifact: the handler parks on
\* qrcode.toDataURL, holding the artifact's number.
ProtoQr(k) ==
    /\ socks[k].st = "connecting"
    /\ nev < MaxEvents
    /\ FreeSlot
    /\ nev' = nev + 1
    /\ socks' = [socks EXCEPT ![k].qrs = @ + 1]
    /\ tasks' = Put(tasks, [Task("conn", socks[k].sid, "qr_encode", k, "qr")
                              EXCEPT !.i = socks[k].qrs + 1])
    /\ last' = Step("proto:qr", socks[k].sid, <<>>)
    /\ UNCHANGED <<variant, boot, creds, SESSIONS, sessions, messages, timers, ncmd, wire, loggedOut>>

\* The artifact is encoded: `SESSIONS[sessionId].lastQr = qrData` (a TypeError
\* when the entry is gone: swallowed by app.js, an unhandled rejection in
\* server.js; either way the handler ends), socketClient.emit('qr') when the
\* start came from a client, io.emit('session', qr_received), and the handler
\* parks on updateStatus.
QrEncoded ==
    \E t \in Parked("conn", "qr_encode") :
        /\ IF Live(t.sid)
           THEN /\ SESSIONS' = [SESSIONS EXCEPT ![t.sid].lastQr = [sock |-> t.sock,
                                                                   no |-> t.i]]
                /\ socks' = [socks EXCEPT ![t.sock].told = "qr_received"]
                /\ tasks' = Swap(tasks, t, [t EXCEPT !.pc = "qr_status"])
                /\ last' = Step("conn:qr", t.sid,
                                (IF socks[t.sock].client
                                 THEN <<QrEv(t.sid, [sock |-> t.sock, no |-> t.i])>>
                                 ELSE <<>>)
                                \o <<Ev("all", "session", t.sid, "qr_received")>>)
           ELSE /\ SESSIONS' = SESSIONS
                /\ socks' = socks
                /\ tasks' = Del(tasks, t)
                /\ last' = Step("conn:qr-throws", t.sid, <<>>)
        /\ UNCHANGED <<variant, boot, creds, sessions, messages, timers, ncmd, nev, wire, loggedOut>>

\* `await sessionStore.updateStatus(sessionId, 'qr_received')` lands; the
\* handler ends.
QrStatus ==
    \E t \in Parked("conn", "qr_status") :
        /\ sessions' = updateStatus(sessions, t.sid, "qr_received")
        /\ tasks' = Del(tasks, t)
        /\ last' = Step("conn:qr-done", t.sid, <<>>)
        /\ UNCHANGED <<variant, boot, creds, SESSIONS, socks, messages, timers, ncmd, nev, wire, loggedOut>>

\* sock.ev.on('creds.update', saveCreds): the credentials of the handle are
\* written to the credential store under its sessionId.
saveCreds(store, sessionId) == [store EXCEPT ![sessionId] = TRUE]

\* The handle opens: it is paired, and its credentials have been saved.
\* sock.user carries the phone number of an open handle, so the handler parks
\* on the phone write: upsert (app.js), setPhone (server.js).
ProtoOpen(k) ==
    /\ socks[k].st = "connecting"
    /\ nev < MaxEvents
    /\ FreeSlot
    /\ nev' = nev + 1
    /\ socks' = [socks EXCEPT ![k].st = "open"]
    /\ creds' = saveCreds(creds, socks[k].sid)
    /\ tasks' = Put(tasks, Task("conn", socks[k].sid, "open_phone", k, "open"))
    /\ last' = Step("proto:open", socks[k].sid, <<>>)
    /\ UNCHANGED <<variant, boot, SESSIONS, sessions, messages, timers, ncmd, wire, loggedOut>>

\* The phone write of the open branch in entry file v: app.js writes
\* `upsert(sessionId, { phone, status: 'connected' })`, server.js writes
\* `setPhone(sessionId, phone)`.
PhoneWrite(v, tbl, sessionId) ==
    IF v = "app"
    THEN upsert(tbl, sessionId, "phone", "connected")
    ELSE setPhone(tbl, sessionId, "phone")

\* The phone write lands.
OpenPhone ==
    \E t \in Parked("conn", "open_phone") :
        /\ sessions' = PhoneWrite(variant, sessions, t.sid)
        /\ tasks' = Swap(tasks, t, [t EXCEPT !.pc = "open_phone_ret"])
        /\ last' = Step("conn:open-phone", t.sid, <<>>)
        /\ UNCHANGED <<variant, boot, creds, SESSIONS, socks, messages, timers, ncmd, nev, wire, loggedOut>>

\* The handler resumes: io.emit('session', connected), and parks on updateStatus.
OpenEmit ==
    \E t \in Parked("conn", "open_phone_ret") :
        /\ tasks' = Swap(tasks, t, [t EXCEPT !.pc = "open_status"])
        /\ socks' = [socks EXCEPT ![t.sock].told = "connected"]
        /\ last' = Step("conn:open", t.sid, <<Ev("all", "session", t.sid, "connected")>>)
        /\ UNCHANGED <<variant, boot, creds, SESSIONS, sessions, messages, timers, ncmd, nev,
                       wire, loggedOut>>

\* `await sessionStore.updateStatus(sessionId, 'connected')` lands; the handler
\* ends (app.js still emits the contact snapshot).
OpenStatus ==
    \E t \in Parked("conn", "open_status") :
        /\ sessions' = updateStatus(sessions, t.sid, "connected")
        /\ tasks' = Del(tasks, t)
        /\ last' = Step("conn:open-done", t.sid, <<>>)
        /\ UNCHANGED <<variant, boot, creds, SESSIONS, socks, messages, timers, ncmd, nev, wire, loggedOut>>

\* The handle closes with a close code: the handler parks on updateStatus.
ProtoClose(k, code) ==
    /\ socks[k].st # "closed"
    /\ nev < MaxEvents
    /\ FreeSlot
    /\ nev' = nev + 1
    /\ socks' = [socks EXCEPT ![k].st = "closed"]
    /\ tasks' = Put(tasks, Task("conn", socks[k].sid, "close_status", k, code))
    /\ last' = Step("proto:close", socks[k].sid, <<>>)
    /\ UNCHANGED <<variant, boot, creds, SESSIONS, sessions, messages, timers, ncmd, wire, loggedOut>>

\* The status a close code is recorded as.
CloseStatusOf(code) == IF code = "loggedOut" THEN "logged_out" ELSE "disconnected"

\* The updateStatus of the close branch lands.
CloseStatus ==
    \E t \in Parked("conn", "close_status") :
        /\ sessions' = updateStatus(sessions, t.sid, CloseStatusOf(t.arg))
        /\ tasks' = Swap(tasks, t, [t EXCEPT !.pc = "close_ret"])
        /\ last' = Step("conn:close-status", t.sid, <<>>)
        /\ UNCHANGED <<variant, boot, creds, SESSIONS, socks, messages, timers, ncmd, nev, wire, loggedOut>>

\* A close branch that, on loggedOut, empties the whole registry.
CloseRegistry_All(reg, sessionId, code) ==
    IF code = "loggedOut" THEN [s \in DOMAIN reg |-> NoEntry] ELSE reg

\* The updateStatus of the close branch throws (the store is down): the
\* listener is an async function without a catch around the close branch, so
\* the rejection ends the handler before the delete or the setTimeout.
CloseStatusFails ==
    \E t \in Parked("conn", "close_status") :
        /\ tasks' = Del(tasks, t)
        /\ last' = [Step("conn:close-store-failed", t.sid, <<>>) EXCEPT !.arg = t.arg]
        /\ UNCHANGED <<variant, boot, creds, SESSIONS, socks, sessions, messages, timers, ncmd, nev,
                       wire, loggedOut>>

\* The registry after the close branch resumed: `delete SESSIONS[sessionId]`
\* on loggedOut, untouched on any other code.
CloseRegistry(reg, sessionId, code) ==
    IF code = "loggedOut" THEN [reg EXCEPT ![sessionId] = NoEntry] ELSE reg

\* The timers after the close branch resumed: one setTimeout on a code other
\* than loggedOut.
CloseTimers(tm, sessionId, code) ==
    IF code = "loggedOut" THEN tm ELSE [tm EXCEPT ![sessionId] = @ + 1]

\* The close branch resumes: io.emit('session', ..), then the delete or the
\* setTimeout; the handler ends.
CloseResume ==
    \E t \in Parked("conn", "close_ret") :
        /\ SESSIONS' = CloseRegistry(SESSIONS, t.sid, t.arg)
        /\ timers' = CloseTimers(timers, t.sid, t.arg)
        /\ tasks' = Del(tasks, t)
        /\ socks' = [socks EXCEPT ![t.sock].told = CloseStatusOf(t.arg)]
        /\ last' = Step(IF t.arg = "loggedOut" THEN "conn:close-loggedOut"
                        ELSE "conn:close-other", t.sid,
                        <<Ev("all", "session", t.sid, CloseStatusOf(t.arg))>>)
        /\ UNCHANGED <<variant, boot, creds, sessions, messages, ncmd, nev, wire, loggedOut>>

\* ---------------------------------------------------------------- logout
\* socket.on('logout-session') / socket.on('logout') up to its first await:
\* sock.logout() with a live entry, updateStatus without.  `purge` is whether
\* the caller asked for the credentials to be purged; the handlers take
\* `{ sessionId }` from the payload and nothing else.
Logout(s, purge) ==
    /\ boot.listening
    /\ ncmd < MaxCmds
    /\ FreeSlot
    /\ ncmd' = ncmd + 1
    /\ tasks' = IF Live(s)
                THEN Put(tasks, [Task("logout", s, "lo_proto", SESSIONS[s].sock, "")
                                   EXCEPT !.nums = <<purge>>])
                ELSE Put(tasks, [Task("logout", s, "lo_status", 0, "")
                                   EXCEPT !.nums = <<purge>>])
    /\ last' = Cmd("logout", s, <<>>, <<purge>>)
    /\ UNCHANGED <<variant, boot, creds, SESSIONS, socks, sessions, messages, timers, nev, wire,
                   loggedOut>>

\* `try { await s.sock.logout(); } catch(e){}` returns ("ok") or throws
\* ("failed"), the same either way: `delete SESSIONS[sessionId]`, and the
\* handler parks on updateStatus.
LogoutProto ==
    \E t \in Parked("logout", "lo_proto") : \E outcome \in {"ok", "failed"} :
        /\ SESSIONS' = [SESSIONS EXCEPT ![t.sid] = NoEntry]
        /\ tasks' = Swap(tasks, t, [t EXCEPT !.pc = "lo_status", !.arg = outcome])
        /\ last' = Step("logout:proto", t.sid, <<>>)
        /\ UNCHANGED <<variant, boot, creds, socks, sessions, messages, timers, ncmd, nev, wire, loggedOut>>

\* `await sessionStore.updateStatus(sessionId, 'logged_out')` lands.  app.js
\* goes on to await clearSession, server.js to its replies.
LogoutStatus ==
    \E t \in Parked("logout", "lo_status") :
        /\ sessions' = updateStatus(sessions, t.sid, "logged_out")
        /\ tasks' = Swap(tasks, t, [t EXCEPT !.pc = IF variant = "app" THEN "lo_clear"
                                                       ELSE "lo_reply"])
        /\ last' = Step("logout:status", t.sid, <<>>)
        /\ UNCHANGED <<variant, boot, creds, SESSIONS, socks, messages, timers, ncmd, nev, wire, loggedOut>>

\* clearSession(pool, sessionId) of mysql-auth.js: the credential-store entry
\* of the sessionId is removed.
clearSession(store, sessionId) == [store EXCEPT ![sessionId] = FALSE]

\* app.js: `try { await clearSession(pool, sessionId); } catch(e){}` returns;
\* the handler goes on to its replies.
LogoutClear ==
    \E t \in Parked("logout", "lo_clear") :
        /\ creds' = clearSession(creds, t.sid)
        /\ tasks' = Swap(tasks, t, [t EXCEPT !.pc = "lo_reply"])
        /\ last' = Step("logout:clear", t.sid, <<>>)
        /\ UNCHANGED <<variant, boot, SESSIONS, socks, sessions, messages, timers, ncmd, nev,
                       wire, loggedOut>>

\* The replies of a logout: 'success-message' (app.js) or 'logged-out'
\* (server.js) to the caller, io.emit('session', logged_out); the handler ends.
LogoutReply ==
    \E t \in Parked("logout", "lo_reply") :
        /\ tasks' = Del(tasks, t)
        /\ loggedOut' = [loggedOut EXCEPT ![t.sid] = TRUE]
        /\ last' = [Step("logout:done", t.sid,
                         <<Ev("caller", IF variant = "app" THEN "success-message"
                                        ELSE "logged-out", t.sid, "ok"),
                           Ev("all", "session", t.sid, "logged_out")>>)
                       EXCEPT !.arg = t.arg]
        /\ UNCHANGED <<variant, boot, creds, SESSIONS, socks, sessions, messages, timers, ncmd, nev, wire>>

\* ---------------------------------------------------------- send-message
\* An event that names an address and carries a tuple.
EvTo(to, ev, sessionId, val, jid) ==
    [to |-> to, ev |-> ev, sid |-> sessionId, val |-> val, jid |-> jid]

\* The reply to a command whose session has no live registry entry.
NotActive(sessionId) == Ev("caller", ErrorEv, sessionId, "session not active")

\* A send that skips the registry check.
SendAllowed_NoCheck(sessionId) == TRUE

\* The registry check of a send: `if (!s || !s.sock) return ..'session not
\* active'` lets the send through on a live entry.
SendAllowed(sessionId) == Live(sessionId)

\* `const jid = formatJid(to)`, then `s.sock.sendMessage(jid, ..)` is called on
\* the stored handle and the handler parks on it, holding `to` and `jid`.
\* `via` is the surface the command came by.
SendCall(s, to, via) ==
    /\ tasks' = Put(tasks, [Task("send", s, "send_proto", SESSIONS[s].sock, via)
                              EXCEPT !.nums = <<to, formatJid(to)>>])
    /\ wire' = Append(wire, [sid |-> s, sock |-> SESSIONS[s].sock, to |-> formatJid(to)])

\* socket.on('send-message') up to its first await: the registry check,
\* formatJid (its throw is caught and replied), then sock.sendMessage is called.
SendMessage(s, to, message) ==
    /\ boot.listening
    /\ ncmd < MaxCmds
    /\ ncmd' = ncmd + 1
    /\ IF ~SendAllowed(s)
       THEN /\ last' = Cmd("send-message", s, <<NotActive(s)>>, <<to, message>>)
            /\ UNCHANGED <<tasks, wire>>
       ELSE IF formatJidThrows(to)
       THEN /\ last' = Cmd("send-message", s,
                           <<Ev("caller", ErrorEv, s, "missing number/jid")>>,
                           <<to, message>>)
            /\ UNCHANGED <<tasks, wire>>
       ELSE /\ FreeSlot
            /\ SendCall(s, to, "socket")
            /\ last' = Cmd("send-message", s, <<>>, <<to, message>>)
    /\ UNCHANGED <<variant, boot, creds, SESSIONS, socks, sessions, messages, timers, nev, loggedOut>>

\* requireApiKey: `!key || key !== API_KEY`.  "" is an absent key.
ApiKeys == {"", "changeme123", "wrong"}
API_KEY == "changeme123"
\* requireApiKey that lets every request through.
requireApiKey_Open(key) == TRUE

requireApiKey(key) == ~(key = "" \/ key # API_KEY)
\* `res.status(401).json({ error: 'invalid api key' })`
Unauthorized(sessionId) == Ev("caller", "401", sessionId, "invalid api key")
\* The `message` of a send: absent, or a text.
Texts == {"", "hi"}

\* POST /api/send (server.js) up to its first await: the key, the required
\* fields, the registry check, formatJid, then sock.sendMessage is called.
ApiSend(s, key, to, message) ==
    /\ variant = "server"
    /\ boot.listening
    /\ ncmd < MaxCmds
    /\ ncmd' = ncmd + 1
    /\ IF ~requireApiKey(key)
       THEN /\ last' = Cmd("api-send", s, <<Unauthorized(s)>>, <<to, message, key>>)
            /\ UNCHANGED <<tasks, wire>>
       ELSE IF to = <<>> \/ message = ""
       THEN /\ last' = Cmd("api-send", s,
                           <<Ev("caller", "400", s, "to and message required")>>,
                           <<to, message, key>>)
            /\ UNCHANGED <<tasks, wire>>
       ELSE IF ~SendAllowed(s)
       THEN /\ last' = Cmd("api-send", s, <<Ev("caller", "404", s, "session not active")>>,
                           <<to, message, key>>)
            /\ UNCHANGED <<tasks, wire>>
       ELSE /\ FreeSlot
            /\ SendCall(s, to, "rest")
            /\ last' = Cmd("api-send", s, <<>>, <<to, message, key>>)
    /\ UNCHANGED <<variant, boot, creds, SESSIONS, socks, sessions, messages, timers, nev, loggedOut>>

\* `parseInt(req.query.limit || '200', 10)`: the query string names a limit
\* (<<n>>) or none (<<>>).
DefaultLimit == 200
LimitQueries == {<<>>} \cup {<<n>> : n \in 0..MaxLimit}
ParseLimit(q) == IF q = <<>> THEN DefaultLimit ELSE q[1]
\* `messageStore.list(500)`
ListLimit == 500

\* GET /api/messages: the key, then the query and the reply.  app.js asks for
\* the history of the named session with the named limit; server.js for the
\* list of all messages, with its own limit.
ApiMessages(s, key, q) ==
    /\ boot.listening
    /\ ncmd < MaxCmds
    /\ ncmd' = ncmd + 1
    /\ IF ~requireApiKey(key)
       THEN last' = Cmd("api-messages", s, <<Unauthorized(s)>>, <<q, "", key>>)
       ELSE \E rows \in IF variant = "app" THEN {history(messages, s, ParseLimit(q))}
                         ELSE list(messages, ListLimit) :
                last' = [Cmd("api-messages", s, <<Ev("caller", "200", s, "rows")>>,
                             <<q, "", key>>) EXCEPT !.log = rows]
    /\ UNCHANGED <<variant, boot, creds, SESSIONS, socks, sessions, messages, timers, tasks, nev, wire,
                   loggedOut>>

\* The protocol accepts a send only on an open handle, and may reject any.
Accepts(k) ==
    IF k \in 1..Len(socks) /\ socks[k].st = "open" THEN {TRUE, FALSE} ELSE {FALSE}

\* A send without its catch: a rejected send goes on to the insert like an
\* accepted one.
SendProto_NoCatch ==
    \E t \in Parked("send", "send_proto") : \E accepted \in Accepts(t.sock) :
        /\ tasks' = Swap(tasks, t, [t EXCEPT !.pc = "send_insert"])
        /\ last' = Step(IF accepted THEN "send:accepted" ELSE "send:rejected", t.sid, <<>>)
        /\ UNCHANGED <<variant, boot, creds, SESSIONS, socks, sessions, messages, timers, ncmd, nev,
                       wire, loggedOut>>

\* `await s.sock.sendMessage(jid, ..)` returns: messageStore.insert is called;
\* or it throws: the error is replied and the handler ends.
SendProto ==
    \E t \in Parked("send", "send_proto") : \E accepted \in Accepts(t.sock) :
        /\ IF accepted
           THEN /\ tasks' = Swap(tasks, t, [t EXCEPT !.pc = "send_insert"])
                /\ last' = Step("send:accepted", t.sid, <<>>)
           ELSE /\ tasks' = Del(tasks, t)
                /\ last' = Step("send:rejected", t.sid,
                                <<Ev("caller", IF t.arg = "rest" THEN "500" ELSE ErrorEv,
                                     t.sid, "rejected")>>)
        /\ UNCHANGED <<variant, boot, creds, SESSIONS, socks, sessions, messages, timers, ncmd, nev,
                       wire, loggedOut>>

\* The insert lands and the handler replies: 'success-message' (app.js),
\* 'message-sent' to the caller and to all (server.js), { ok: true } (REST); the
\* handler ends.
SendInsert ==
    \E t \in Parked("send", "send_insert") :
        /\ messages' = insert(messages, t.sid, "out", t.nums[2])
        /\ tasks' = Del(tasks, t)
        /\ last' = Step("send:done", t.sid,
                        IF t.arg = "rest"
                        THEN <<Ev("caller", "200", t.sid, "ok")>>
                        ELSE IF variant = "app"
                        THEN <<Ev("caller", "success-message", t.sid, "Message sent")>>
                        ELSE <<EvTo("caller", "message-sent", t.sid, <<"sent">>, t.nums[2]),
                               EvTo("all", "message-sent", t.sid, <<"sent">>, t.nums[2])>>)
        /\ UNCHANGED <<variant, boot, creds, SESSIONS, socks, sessions, timers, ncmd, nev, wire,
                       loggedOut>>

\* The insert throws (the store is down): the catch of the handler replies the
\* error; the handler ends.
SendInsertFails ==
    \E t \in Parked("send", "send_insert") :
        /\ tasks' = Del(tasks, t)
        /\ last' = Step("send:store-failed", t.sid,
                        <<Ev("caller", IF t.arg = "rest" THEN "500" ELSE ErrorEv, t.sid,
                             "store failed")>>)
        /\ UNCHANGED <<variant, boot, creds, SESSIONS, socks, sessions, messages, timers, ncmd, nev,
                       wire, loggedOut>>

\* ------------------------------------------------------------- broadcast
\* 'broadcast-status' for entry i of the list.
Progress(t, status) ==
    EvTo("caller", "broadcast-status", t.sid, <<status, t.i + 1, Len(t.nums)>>,
         formatJid(t.nums[t.i + 1]))

\* 'broadcast-complete': { id, total } in app.js, { id, total, success } in
\* server.js.
Complete(t) ==
    EvTo("caller", "broadcast-complete", t.sid,
         IF variant = "app" THEN <<"complete", Len(t.nums)>>
         ELSE <<"complete", Len(t.nums), t.ok>>, <<>>)

\* A loop without the outer catch: a throw of formatJid ends the handler with
\* nothing sent to the caller.
LoopHead_NoCatch(t) ==
    IF t.i >= Len(t.nums)
    THEN [t EXCEPT !.pc = "end", !.log = Append(@, Complete(t))]
    ELSE IF formatJidThrows(t.nums[t.i + 1])
    THEN [t EXCEPT !.pc = "end"]
    ELSE [t EXCEPT !.pc = "bc_proto"]

\* The head of the loop for a handler that has dealt with t.i entries: past the
\* end it emits 'broadcast-complete'; a throw of formatJid leaves the loop for
\* the outer catch; otherwise sock.sendMessage is called for entry t.i + 1.
LoopHead(t) ==
    IF t.i >= Len(t.nums)
    THEN [t EXCEPT !.pc = "end", !.log = Append(@, Complete(t))]
    ELSE IF formatJidThrows(t.nums[t.i + 1])
    THEN [t EXCEPT !.pc = "end",
                   !.log = Append(@, Ev("caller", ErrorEv, t.sid, "missing number/jid"))]
    ELSE [t EXCEPT !.pc = "bc_proto"]

\* One step of a broadcast handler that leaves it as `next`: parked on the
\* send of the next entry, or ended.
BroadcastTo(b, next) ==
    \E u \in {next} :
        /\ tasks' = IF u.pc = "end" THEN b ELSE Put(b, u)
        /\ wire' = IF u.pc = "end" THEN wire
                   ELSE Append(wire, [sid |-> u.sid, sock |-> u.sock,
                                      to |-> formatJid(u.nums[u.i + 1])])
        /\ last' = IF u.pc = "end"
                   THEN [Step("broadcast:done", u.sid, <<>>)
                           EXCEPT !.nums = u.nums, !.log = u.log]
                   ELSE Step("broadcast", u.sid, <<>>)

\* All recipient lists of at most n entries.
RECURSIVE Lists(_)
Lists(n) ==
    IF n = 0 THEN {<<>>}
    ELSE LET shorter == Lists(n - 1) IN
         shorter \cup {Append(l, r) : l \in shorter, r \in Recipients}

\* socket.on('broadcast') up to its first await.
Broadcast(s, numbers) ==
    /\ boot.listening
    /\ ncmd < MaxCmds
    /\ ncmd' = ncmd + 1
    /\ IF ~SendAllowed(s)
       THEN /\ last' = [Step("broadcast:done", s, <<>>)
                          EXCEPT !.nums = numbers, !.log = <<NotActive(s)>>]
            /\ UNCHANGED <<tasks, wire>>
       ELSE /\ FreeSlot
            /\ BroadcastTo(tasks, LoopHead([Task("bcast", s, "", SESSIONS[s].sock, "")
                                              EXCEPT !.nums = numbers]))
    /\ UNCHANGED <<variant, boot, creds, SESSIONS, socks, sessions, messages, timers, nev, loggedOut>>

\* A loop that does not wait for the insert: when the send of entry t.i + 1
\* returns it goes straight on to the next entry.
BroadcastProto_Eager ==
    \E t \in Parked("bcast", "bc_proto") : \E accepted \in Accepts(t.sock) :
        /\ BroadcastTo(Del(tasks, t),
                       LoopHead([t EXCEPT !.log = Append(@, Progress(t, IF accepted THEN "sent"
                                                                       ELSE "error")),
                                          !.ok = IF accepted THEN @ + 1 ELSE @,
                                          !.i = @ + 1]))
        /\ UNCHANGED <<variant, boot, creds, SESSIONS, socks, sessions, messages, timers, ncmd, nev,
                       loggedOut>>

\* The send of entry t.i + 1 returns: messageStore.insert is called; or it
\* throws: 'broadcast-status' error, and the loop goes on.
BroadcastProto ==
    \E t \in Parked("bcast", "bc_proto") : \E accepted \in Accepts(t.sock) :
        /\ IF accepted
           THEN /\ tasks' = Swap(tasks, t, [t EXCEPT !.pc = "bc_insert"])
                /\ last' = Step("broadcast", t.sid, <<>>)
                /\ wire' = wire
           ELSE BroadcastTo(Del(tasks, t),
                            LoopHead([t EXCEPT !.log = Append(@, Progress(t, "error")),
                                               !.i = @ + 1]))
        /\ UNCHANGED <<variant, boot, creds, SESSIONS, socks, sessions, messages, timers, ncmd, nev,
                       loggedOut>>

\* The insert of entry t.i + 1 lands: success++, 'broadcast-status' sent, and
\* the loop goes on.
BroadcastInsert ==
    \E t \in Parked("bcast", "bc_insert") :
        /\ messages' = insert(messages, t.sid, "out", formatJid(t.nums[t.i + 1]))
        /\ BroadcastTo(Del(tasks, t),
                       LoopHead([t EXCEPT !.log = Append(@, Progress(t, "sent")),
                                          !.ok = @ + 1, !.i = @ + 1]))
        /\ UNCHANGED <<variant, boot, creds, SESSIONS, socks, sessions, timers, ncmd, nev, loggedOut>>

\* The insert of entry t.i + 1 throws: the inner catch sends 'broadcast-status'
\* error (success is not counted), and the loop goes on.
BroadcastInsertFails ==
    \E t \in Parked("bcast", "bc_insert") :
        /\ BroadcastTo(Del(tasks, t),
                       LoopHead([t EXCEPT !.log = Append(@, Progress(t, "error")),
                                          !.i = @ + 1]))
        /\ UNCHANGED <<variant, boot, creds, SESSIONS, socks, sessions, messages, timers, ncmd,
                       nev, loggedOut>>

\* ------------------------------------------------------- messages.upsert
\* A message of a delivered batch, all of them inbound (key.fromMe is false):
\* one with content, one without (`!msg.message`), one addressed to
\* 'status@broadcast'.
Inbound == {"text", "empty", "status"}

\* All batches of at most n messages.
RECURSIVE Batches(_)
Batches(n) ==
    IF n = 0 THEN {<<>>}
    ELSE LET shorter == Batches(n - 1) IN
         shorter \cup {Append(b, m) : b \in shorter, m \in Inbound}

\* `!msg.message || msg.key.remoteJid === 'status@broadcast'` is false.
Stored(msg) == msg = "text"

\* The message the listener inserts next, having dealt with the first i of the
\* batch (0: none, the listener returns).  app.js loops over the batch and
\* skips what it does not store; server.js looks at messages[0] alone.
NextStored(batch, i) ==
    IF variant = "app"
    THEN LET rest == {j \in (i + 1)..Len(batch) : Stored(batch[j])} IN
         IF rest = {} THEN 0 ELSE CHOOSE j \in rest : \A h \in rest : j <= h
    ELSE IF i = 0 /\ batch # <<>> /\ Stored(batch[1]) THEN 1 ELSE 0

\* `sock.user?.id`, the `to` of an inbound row.
OwnJid == <<"0", "@", "s">>

\* io.emit('message', { sessionId, from, text })
MessageEv(sessionId) == Ev("all", "message", sessionId, "text")

\* The listener has returned: it hands over the batch, the events it emitted
\* and the number of rows it inserted.
InboundDone(t) ==
    [Step("inbound:done", t.sid, <<>>) EXCEPT !.nums = t.nums, !.log = t.log,
                                              !.req = <<t.ok>>]

\* sock.ev.on('messages.upsert') up to its first await: an open handle delivers
\* a batch; the listener parks on the insert of the first message it stores, or
\* returns.
ProtoMessages(k, batch) ==
    LET t == [Task("inbound", socks[k].sid, "in_insert", k, "")
                EXCEPT !.nums = batch, !.i = NextStored(batch, 0)] IN
    /\ socks[k].st = "open"
    /\ Len(messages) < MaxRows
    /\ IF t.i = 0
       THEN /\ tasks' = tasks
            /\ last' = InboundDone(t)
       ELSE /\ FreeSlot
            /\ tasks' = Put(tasks, t)
            /\ last' = Step("proto:messages", t.sid, <<>>)
    /\ UNCHANGED <<variant, boot, creds, SESSIONS, socks, sessions, messages, timers, ncmd,
                   nev, wire, loggedOut>>

\* `await messageStore.insert({ sessionId, direction: 'in', .. })` lands, the
\* listener emits 'message' and goes on to the next message it stores, or
\* returns.
InboundInsert ==
    \E t \in Parked("inbound", "in_insert") :
        LET u == [t EXCEPT !.ok = @ + 1, !.log = Append(@, MessageEv(t.sid)),
                           !.i = NextStored(t.nums, t.i)] IN
        /\ messages' = insert(messages, t.sid, "in", OwnJid)
        /\ tasks' = IF u.i = 0 THEN Del(tasks, t) ELSE Swap(tasks, t, u)
        /\ last' = IF u.i = 0 THEN InboundDone(u)
                   ELSE Step("inbound", t.sid, <<MessageEv(t.sid)>>)
        /\ UNCHANGED <<variant, boot, creds, SESSIONS, socks, sessions, timers, ncmd, nev,
                       wire, loggedOut>>

\* ------------------------------------------------------------------ startup
\* The entry file has been loaded and its store initialization is under way.
\* app.js calls server.listen after `await initDB()`; server.js calls it at
\* the end of the file, with ensureTables still awaiting its connection.
Loaded == [db |-> "pending", listening |-> variant = "server"]

\* The store initialization is over.  app.js: initDB returned and
\* server.listen is called, or it threw and the catch calls process.exit(1).
\* server.js: ensureTables returned, or it threw and its `.catch` logs the
\* error.
Boot(outcome) ==
    /\ boot.db = "pending"
    /\ boot' = [db |-> outcome,
                listening |-> IF variant = "app" THEN outcome = "ok" ELSE boot.listening]
    /\ last' = Step("boot:" \o outcome, "main", <<>>)
    /\ UNCHANGED <<variant, creds, SESSIONS, socks, sessions, messages, timers, tasks, ncmd,
                   nev, wire, loggedOut>>

\* -------------------------------------------------------------------- Next
Next ==
    \/ \E s \in SessionIds : StartSession(s)
    \/ StartUpsert
    \/ StartCreds
    \/ StartVersion
    \/ StartFails
    \/ HandlerUpsert
    \/ HandlerEmit
    \/ HandlerList
    \/ \E s \in SessionIds : TimerFire(s)
    \/ \E s \in SessionIds : RequestQr(s)
    \/ \E k \in 1..Len(socks) : ProtoQr(k)
    \/ QrEncoded
    \/ QrStatus
    \/ \E k \in 1..Len(socks) : ProtoOpen(k)
    \/ OpenPhone
    \/ OpenEmit
    \/ OpenStatus
    \/ \E k \in 1..Len(socks), code \in CloseCodes : ProtoClose(k, code)
    \/ CloseStatus
    \/ CloseStatusFails
    \/ CloseResume
    \/ \E s \in SessionIds, purge \in BOOLEAN : Logout(s, purge)
    \/ LogoutProto
    \/ LogoutStatus
    \/ LogoutClear
    \/ LogoutReply
    \/ \E s \in SessionIds, to \in Recipients, message \in Texts : SendMessage(s, to, message)
    \/ \E s \in SessionIds, key \in ApiKeys, to \in Recipients, message \in Texts :
            ApiSend(s, key, to, message)
    \/ \E s \in SessionIds, key \in ApiKeys, q \in LimitQueries : ApiMessages(s, key, q)
    \/ SendProto
    \/ SendInsert
    \/ SendInsertFails

Spec == Init /\ [][Next]_vars

\* The gateway from the load of its entry file on.
InitBoot ==
    /\ variant \in Variants
    /\ boot = Loaded
    /\ creds = [s \in AllIds |-> FALSE]
    /\ SESSIONS = [s \in AllIds |-> NoEntry]
    /\ socks = <<>>
    /\ sessions = [s \in AllIds |-> NoRow]
    /\ messages = <<>>
    /\ timers = [s \in AllIds |-> 0]
    /\ tasks = EmptyBag
    /\ ncmd = 0
    /\ nev = 0
    /\ wire = <<>>
    /\ loggedOut = [s \in AllIds |-> FALSE]
    /\ last = Step("load", "main", <<>>)

NextBoot ==
    \/ \E outcome \in {"ok", "failed"} : Boot(outcome)
    \/ Next

SpecBoot == InitBoot /\ [][NextBoot]_vars

\* The life of a session on its own: every command and protocol event that
\* touches the registry, the handles, the Session records or the timers.
NextLife ==
    \/ \E s \in SessionIds : StartSession(s)
    \/ StartUpsert
    \/ StartCreds
    \/ StartVersion
    \/ StartFails
    \/ HandlerUpsert
    \/ HandlerEmit
    \/ HandlerList
    \/ \E s \in SessionIds : TimerFire(s)
    \/ \E s \in SessionIds : RequestQr(s)
    \/ \E k \in 1..Len(socks) : ProtoQr(k)
    \/ QrEncoded
    \/ QrStatus
    \/ \E k \in 1..Len(socks) : ProtoOpen(k)
    \/ OpenPhone
    \/ OpenEmit
    \/ OpenStatus
    \/ \E k \in 1..Len(socks), code \in CloseCodes : ProtoClose(k, code)
    \/ CloseStatus
    \/ CloseStatusFails
    \/ CloseResume
    \/ \E s \in SessionIds : Logout(s, FALSE)
    \/ LogoutProto
    \/ LogoutStatus
    \/ LogoutClear
    \/ LogoutReply

SpecLife == Init /\ [][NextLife]_vars

\* The life of a session after a drop: session 'main' was started by a command,
\* its handle closed for a recoverable cause before it opened, and the close
\* handler has set its reconnect timer (every handler of that has ended; the
\* commands and events are counted from here on).
InitDropped ==
    /\ variant \in Variants
    /\ boot = Booted
    /\ creds = [s \in AllIds |-> FALSE]
    /\ SESSIONS = [s \in AllIds |-> IF s = "main" THEN NewEntry(1) ELSE NoEntry]
    /\ socks = <<[sid |-> "main", st |-> "closed", told |-> "disconnected",
                 client |-> TRUE, qrs |-> 0]>>
    /\ sessions = [s \in AllIds |-> IF s = "main"
                                   THEN [status |-> "disconnected", phone |-> "null"]
                                   ELSE NoRow]
    /\ messages = <<>>
    /\ timers = [s \in AllIds |-> IF s = "main" THEN 1 ELSE 0]
    /\ tasks = EmptyBag
    /\ ncmd = 0
    /\ nev = 0
    /\ wire = <<>>
    /\ loggedOut = [s \in AllIds |-> FALSE]
    /\ last = Step("conn:close-other", "main",
                   <<Ev("all", "session", "main", "disconnected")>>)

SpecRetry == InitDropped /\ [][NextLife]_vars

\* Sending and the REST surface: a session is started, opens, closes and is
\* logged out, and messages are sent over it and read back.
NextSend ==
    \/ \E s \in SessionIds : StartSession(s)
    \/ StartUpsert
    \/ StartCreds
    \/ StartVersion
    \/ HandlerUpsert
    \/ HandlerEmit
    \/ HandlerList
    \/ \E k \in 1..Len(socks) : ProtoOpen(k)
    \/ OpenPhone
    \/ OpenEmit
    \/ OpenStatus
    \/ \E k \in 1..Len(socks), code \in CloseCodes : ProtoClose(k, code)
    \/ CloseStatus
    \/ CloseStatusFails
    \/ CloseResume
    \/ \E s \in SessionIds : Logout(s, FALSE)
    \/ LogoutProto
    \/ LogoutStatus
    \/ LogoutClear
    \/ LogoutReply
    \/ \E s \in SessionIds, to \in Recipients, message \in Texts : SendMessage(s, to, message)
    \/ \E s \in SessionIds, key \in ApiKeys, to \in Recipients, message \in Texts :
            ApiSend(s, key, to, message)
    \/ \E s \in SessionIds, key \in ApiKeys, q \in LimitQueries : ApiMessages(s, key, q)
    \/ SendProto
    \/ SendInsert
    \/ SendInsertFails

SpecSend == Init /\ [][NextSend]_vars

\* The broadcast loop on its own: a session is started and opened, and lists
\* are broadcast over it.
NextBroadcast ==
    \/ \E s \in SessionIds : StartSession(s)
    \/ StartUpsert
    \/ StartCreds
    \/ StartVersion
    \/ HandlerUpsert
    \/ HandlerEmit
    \/ HandlerList
    \/ \E k \in 1..Len(socks) : ProtoOpen(k)
    \/ OpenPhone
    \/ OpenEmit
    \/ OpenStatus
    \/ \E s \in SessionIds, numbers \in Lists(MaxRecipients) : Broadcast(s, numbers)
    \/ BroadcastProto
    \/ BroadcastInsert

SpecBroadcast == Init /\ [][NextBroadcast]_vars

\* The loop of a broadcast on its own: session 'main' has been started by one
\* command and its handle has opened (every handler of that has ended), and
\* lists are broadcast over it.
InitLoop ==
    /\ variant \in Variants
    /\ boot = Booted
    /\ creds = [s \in AllIds |-> s = "main"]
    /\ SESSIONS = [s \in AllIds |-> IF s = "main" THEN NewEntry(1) ELSE NoEntry]
    /\ socks = <<[sid |-> "main", st |-> "open", told |-> "connected", client |-> TRUE,
                 qrs |-> 0]>>
    /\ sessions = [s \in AllIds |-> IF s = "main"
                                   THEN [status |-> "connected", phone |-> "phone"]
                                   ELSE NoRow]
    /\ messages = <<>>
    /\ timers = [s \in AllIds |-> 0]
    /\ tasks = EmptyBag
    /\ ncmd = 1
    /\ nev = 1
    /\ wire = <<>>
    /\ loggedOut = [s \in AllIds |-> FALSE]
    /\ last = Step("conn:open-done", "main", <<>>)

NextLoop ==
    \/ \E s \in SessionIds, numbers \in Lists(MaxRecipients) : Broadcast(s, numbers)
    \/ BroadcastProto
    \/ BroadcastInsert

SpecLoop == InitLoop /\ [][NextLoop]_vars

\* Logout against a broadcast: session 'main' is started and open (the state of
\* InitLoop; the commands and events are counted from here on), lists are
\* broadcast over it and it is logged out.
InitOpen ==
    /\ variant \in Variants
    /\ boot = Booted
    /\ creds = [s \in AllIds |-> s = "main"]
    /\ SESSIONS = [s \in AllIds |-> IF s = "main" THEN NewEntry(1) ELSE NoEntry]
    /\ socks = <<[sid |-> "main", st |-> "open", told |-> "connected", client |-> TRUE,
                 qrs |-> 0]>>
    /\ sessions = [s \in AllIds |-> IF s = "main"
                                   THEN [status |-> "connected", phone |-> "phone"]
                                   ELSE NoRow]
    /\ messages = <<>>
    /\ timers = [s \in AllIds |-> 0]
    /\ tasks = EmptyBag
    /\ ncmd = 0
    /\ nev = 0
    /\ wire = <<>>
    /\ loggedOut = [s \in AllIds |-> FALSE]
    /\ last = Step("conn:open-done", "main", <<>>)

NextDrain ==
    \/ \E s \in SessionIds, numbers \in Lists(MaxRecipients) : Broadcast(s, numbers)
    \/ BroadcastProto
    \/ BroadcastInsert
    \/ \E s \in SessionIds : Logout(s, FALSE)
    \/ LogoutProto
    \/ LogoutStatus
    \/ LogoutClear
    \/ LogoutReply

SpecDrain == InitOpen /\ [][NextDrain]_vars

\* No handler of the sessionId is in flight.
Quiet(s) == \A t \in BagToSet(tasks) : t.sid # s

\* Session 'main' of InitLoop after a logout that has run to its end: the
\* registry entry is gone, the row says logged_out, and app.js has purged the
\* credentials.
InitGone ==
    /\ variant \in Variants
    /\ boot = Booted
    /\ creds = [s \in AllIds |-> s = "main" /\ variant = "server"]
    /\ SESSIONS = [s \in AllIds |-> NoEntry]
    /\ socks = <<[sid |-> "main", st |-> "open", told |-> "connected", client |-> TRUE,
                 qrs |-> 0]>>
    /\ sessions = [s \in AllIds |-> IF s = "main"
                                   THEN [status |-> "logged_out", phone |-> "phone"]
                                   ELSE NoRow]
    /\ messages = <<>>
    /\ timers = [s \in AllIds |-> 0]
    /\ tasks = EmptyBag
    /\ ncmd = 1
    /\ nev = 1
    /\ wire = <<>>
    /\ loggedOut = [s \in AllIds |-> s = "main"]
    /\ last = [Step("logout:done", "main",
                    <<Ev("caller", IF variant = "app" THEN "success-message"
                                   ELSE "logged-out", "main", "ok"),
                      Ev("all", "session", "main", "logged_out")>>)
                  EXCEPT !.arg = "ok"]

\* Broadcasts to their end: lists are broadcast over session 'main', open or
\* logged out, one command after the other has ended, and the inserts may
\* fail.  Every send and every insert a handler awaits settles in the end (it
\* returns or throws).
NextEnd ==
    \/ \E s \in SessionIds, numbers \in Lists(MaxRecipients) :
            Quiet(s) /\ Broadcast(s, numbers)
    \/ BroadcastProto
    \/ BroadcastInsert
    \/ BroadcastInsertFails

SpecEnd ==
    /\ InitLoop \/ InitGone
    /\ [][NextEnd]_vars
    /\ WF_vars(BroadcastProto)
    /\ WF_vars(BroadcastInsert \/ BroadcastInsertFails)

\* Inbound messages on their own: session 'main' is started and open, and its
\* handle delivers batches of messages.
NextInbound ==
    \/ \E k \in 1..Len(socks), batch \in Batches(MaxBatch) : ProtoMessages(k, batch)
    \/ InboundInsert

SpecInbound == InitLoop /\ [][NextInbound]_vars

\* Two sessions side by side: every command and protocol event of the life of
\* a session and of sending, for either sessionId, store failures included.
\* The handlers of the two sessions interleave; a session takes its next
\* command or protocol event once its own handlers have ended.
NextTwo ==
    \/ \E s \in AllIds : Quiet(s) /\ StartSession(s)
    \/ StartUpsert
    \/ StartCreds
    \/ StartVersion
    \/ StartFails
    \/ HandlerUpsert
    \/ HandlerEmit
    \/ HandlerList
    \/ \E s \in AllIds : Quiet(s) /\ TimerFire(s)
    \/ \E k \in 1..Len(socks) : Quiet(socks[k].sid) /\ ProtoQr(k)
    \/ QrEncoded
    \/ QrStatus
    \/ \E k \in 1..Len(socks) : Quiet(socks[k].sid) /\ ProtoOpen(k)
    \/ OpenPhone
    \/ OpenEmit
    \/ OpenStatus
    \/ \E k \in 1..Len(socks), code \in CloseCodes : Quiet(socks[k].sid) /\ ProtoClose(k, code)
    \/ CloseStatus
    \/ CloseStatusFails
    \/ CloseResume
    \/ \E s \in AllIds : Quiet(s) /\ Logout(s, FALSE)
    \/ LogoutProto
    \/ LogoutStatus
    \/ LogoutClear
    \/ LogoutReply
    \/ \E s \in AllIds, to \in Recipients : Quiet(s) /\ SendMessage(s, to, "hi")
    \/ SendProto
    \/ SendInsert
    \/ SendInsertFails
    \/ \E s \in AllIds, numbers \in Lists(MaxRecipients) : Quiet(s) /\ Broadcast(s, numbers)
    \/ BroadcastProto
    \/ BroadcastInsert

SpecTwo == Init /\ [][NextTwo]_vars

\* formatJid on its own: an address is handed to it, and what it returns is
\* handed to it again (a client replying to the `to` of a 'message-sent' event).
Alphabet == {"0", "8", "-", " ", "@", "s", "g"}

\* All strings of at most n characters.
RECURSIVE Strings(_)
Strings(n) ==
    IF n = 0 THEN {<<>>}
    ELSE LET shorter == Strings(n - 1) IN
         shorter \cup {Append(x, c) : x \in shorter, c \in Alphabet}

InitJid ==
    /\ variant \in Variants
    /\ boot = Booted
    /\ creds = [s \in AllIds |-> FALSE]
    /\ SESSIONS = [s \in AllIds |-> NoEntry]
    /\ socks = <<>>
    /\ sessions = [s \in AllIds |-> NoRow]
    /\ messages = <<>>
    /\ timers = [s \in AllIds |-> 0]
    /\ tasks = EmptyBag
    /\ ncmd = 0
    /\ nev = 0
    /\ wire = <<>>
    /\ loggedOut = [s \in AllIds |-> FALSE]
    /\ \E x \in Strings(MaxLen) : last = [Step("input", "main", <<>>) EXCEPT !.req = <<x>>]

\* `const jid = formatJid(to)`: it throws on a falsy address, or returns.
FormatJidCall ==
    /\ last.op = "input"
    /\ last' = IF formatJidThrows(last.req[1])
               THEN [last EXCEPT !.op = "formatJid:throws"]
               ELSE [last EXCEPT !.op = "formatJid", !.log = <<formatJid(last.req[1])>>]
    /\ UNCHANGED <<variant, boot, creds, SESSIONS, socks, sessions, messages, timers, tasks, ncmd, nev,
                   wire, loggedOut>>

\* formatJid is handed what it returned.
FormatJidAgain ==
    /\ last.op = "formatJid"
    /\ ~formatJidThrows(last.log[1])
    /\ last' = [last EXCEPT !.op = "formatJid:again",
                            !.log = Append(@, formatJid(last.log[1]))]
    /\ UNCHANGED <<variant, boot, creds, SESSIONS, socks, sessions, messages, timers, tasks, ncmd, nev,
                   wire, loggedOut>>

NextJid ==
    \/ FormatJidCall
    \/ FormatJidAgain

SpecJid == InitJid /\ [][NextJid]_vars

\* The message history on its own: the messages table as earlier runs and other
\* sessions left it, and requests for the history of a session.
HistoryIds == AllIds
Rows == [sessionId : HistoryIds, direction : {"out"},
         to : {<<"0", "8", "@", "s">>, <<"8", "@", "g">>}]

\* All tables of at most n rows.
RECURSIVE Tables(_)
Tables(n) ==
    IF n = 0 THEN {<<>>}
    ELSE LET shorter == Tables(n - 1) IN
         shorter \cup {Append(tbl, row) : tbl \in shorter, row \in Rows}

InitHistory ==
    /\ variant \in Variants
    /\ boot = Booted
    /\ creds = [s \in AllIds |-> FALSE]
    /\ SESSIONS = [s \in AllIds |-> NoEntry]
    /\ socks = <<>>
    /\ sessions = [s \in AllIds |-> NoRow]
    /\ messages \in Tables(MaxRows)
    /\ timers = [s \in AllIds |-> 0]
    /\ tasks = EmptyBag
    /\ ncmd = 0
    /\ nev = 0
    /\ wire = <<>>
    /\ loggedOut = [s \in AllIds |-> FALSE]
    /\ last = Step("init", "main", <<>>)

NextHistory ==
    \E s \in HistoryIds, key \in ApiKeys, q \in LimitQueries : ApiMessages(s, key, q)

SpecHistory == InitHistory /\ [][NextHistory]_vars

\* ---------------------------------------------------------------- claims
Copies(b, t) == IF t \in BagToSet(b) THEN b[t] ELSE 0

\* C1: two start calls that overlap yield one Connection: a protocol handle is
\* made for a sessionId only while the registry holds no entry for it, so a
\* second call never opens a second handle over the first one's.
C1_ConcurrentStartOneHandle ==
    [][\A s \in SessionIds :
         (Len(socks') = Len(socks) + 1 /\ socks'[Len(socks')].sid = s) => ~Live(s)]_vars

\* C2: once the reconnect timer of a recoverable close fires, a connection
\* attempt is made: a startBaileysSession call of the timer is parked on the
\* upsert that records `loading`.
C2_TimerReconnects ==
    [][\A s \in SessionIds :
         timers'[s] < timers[s] =>
             Copies(tasks', Task("start", s, "upsert", 0, "timer"))
                 > Copies(tasks, Task("start", s, "upsert", 0, "timer"))]_vars

\* C3: when the handler of a close with code loggedOut has ended, the persisted
\* status is logged_out and the registry holds no entry for the sessionId (so a
\* later send is refused).
C3_LoggedOutCloseIsFinal ==
    last.op = "conn:close-loggedOut" =>
        /\ sessions[last.sid].status = "logged_out"
        /\ ~Live(last.sid)

\* C4: after a completed logout, and with no start command since, a reconnect
\* timer that fires re-creates nothing: it starts no connection attempt.
C4_LogoutCancelsReconnect ==
    [][\A s \in SessionIds :
         (loggedOut[s] /\ timers'[s] < timers[s]) => tasks' = tasks]_vars

\* C5: a send (socket or REST, past the key and the required fields) on a
\* sessionId without a live registry entry is answered 'session not active',
\* calls no sock.sendMessage, inserts no Message and parks no handler.
C5_SendWithoutEntryFails ==
    [][\A s \in SessionIds :
         (last'.op \in {"send-message", "api-send"} /\ last'.sid = s /\ ncmd' = ncmd + 1
            /\ ~Live(s)
            /\ last'.out \notin {<<Ev("caller", "401", s, "invalid api key")>>,
                                 <<Ev("caller", "400", s, "to and message required")>>})
         => /\ last'.out \in {<<NotActive(s)>>,
                              <<Ev("caller", "404", s, "session not active")>>}
            /\ wire' = wire
            /\ messages' = messages
            /\ tasks' = tasks]_vars

\* C5 witness: a send was just refused for want of a registry entry.
C5_Witness ==
    /\ last.op \in {"send-message", "api-send"}
    /\ ~Live(last.sid)
    /\ last.out \in {<<NotActive(last.sid)>>,
                     <<Ev("caller", "404", last.sid, "session not active")>>}

\* C6: sock.sendMessage is called for a send only when the session's persisted
\* status is connected.
C6_SendOnlyWhenConnected ==
    [][\A s \in SessionIds :
         (last'.op \in {"send-message", "api-send"} /\ last'.sid = s /\ wire' # wire)
         => sessions[s].status = "connected"]_vars

\* The progress events of a broadcast log.
ProgressOf(log) == {i \in 1..Len(log) : log[i].ev = "broadcast-status"}

\* A broadcast that passed the registry check has ended in the step just taken.
BroadcastEnded ==
    /\ last.op = "broadcast:done"
    /\ last.log # <<NotActive(last.sid)>>

\* C7: a broadcast over n recipients on a live session emits n progress events,
\* entry i carrying index i, total n, the canonical address of recipient i and
\* its outcome, and then one summary with total n and the count of sent ones.
C7_BroadcastReport ==
    BroadcastEnded =>
        LET n == Len(last.nums)
            log == last.log
        IN  /\ Len(log) = n + 1
            /\ \A i \in 1..n :
                 /\ log[i].ev = "broadcast-status"
                 /\ log[i].val[1] \in {"sent", "error"}
                 /\ log[i].val[2] = i
                 /\ log[i].val[3] = n
                 /\ log[i].jid = formatJid(last.nums[i])
            /\ log[n + 1].ev = "broadcast-complete"
            /\ log[n + 1].val =
                 <<"complete", n,
                   Cardinality({i \in ProgressOf(log) : log[i].val[1] = "sent"})>>

\* C8: no recipient's failure aborts a broadcast: every recipient gets its
\* progress event and the last event is the summary.
C8_BroadcastNeverAborts ==
    BroadcastEnded =>
        /\ Cardinality(ProgressOf(last.log)) = Len(last.nums)
        /\ last.log[Len(last.log)].ev = "broadcast-complete"

\* C9: a start (by command or by timer) on a sessionId with a live entry leaves
\* the registry (handle, cached artifact, creation time) and the handles as they
\* are and parks no call that would make a handle; a start-session handler goes
\* on with the stored handle, and none of its later steps touches the registry.
C9_StartOnLiveIsIdempotent ==
    [][/\ \A s \in SessionIds :
           (Live(s) /\ last'.sid = s
              /\ \/ last'.op = "start-session" /\ ncmd' = ncmd + 1
                 \/ last'.op = "timer" /\ timers'[s] < timers[s])
           => /\ SESSIONS' = SESSIONS
              /\ socks' = socks
              /\ NumStarting' = NumStarting
              /\ last'.op = "start-session" =>
                   tasks' = Put(tasks, Task("start", s, "h_upsert", SESSIONS[s].sock,
                                            "cmd-live"))
              /\ last'.op = "timer" => tasks' = tasks
       /\ \A t \in BagToSet(tasks) :
           (t.arg = "cmd-live" /\ Copies(tasks', t) < Copies(tasks, t))
           => SESSIONS'[t.sid] = SESSIONS[t.sid] /\ socks' = socks]_vars

\* C9 witness: a start-session command was just dispatched on a live sessionId.
C9_Witness ==
    /\ last.op = "start-session"
    /\ Live(last.sid)
    /\ Parked("start", "h_upsert") # {}

\* C10: the start-session handler of a command that found a live entry, and is
\* the only handler in flight, leaves the Session record as it was: its upsert
\* changes neither status nor phone.
C10_StartOnLiveKeepsRecord ==
    [][\A t \in Parked("start", "h_upsert") :
         (t.arg = "cmd-live" /\ BagCardinality(tasks) = 1
            /\ last'.op = "start-session:upsert"
            /\ tasks' = Swap(tasks, t, [t EXCEPT !.pc = "h_upsert_ret"]))
         => sessions'[t.sid] = sessions[t.sid]]_vars

\* A send command was dispatched in this step: by socket, or by REST with the
\* right key.
SendDispatched ==
    /\ ncmd' = ncmd + 1
    /\ \/ last'.op = "send-message"
       \/ last'.op = "api-send" /\ requireApiKey(last'.req[3])

\* C11: a logout that found a live entry ends, whether sock.logout() returned
\* or threw, with no registry entry for the sessionId, the persisted status
\* logged_out and the success reply to its caller.
C11_LogoutEndsLoggedOut ==
    (last.op = "logout:done" /\ last.arg \in {"ok", "failed"}) =>
        /\ ~Live(last.sid)
        /\ sessions[last.sid].status = "logged_out"
        /\ last.out[1].ev \in {"success-message", "logged-out"}

\* The characters 0-9 of a string, in order.
DigitsOf(x) == SelectSeq(x, LAMBDA c : c \in Digits)

\* A string without its leading and trailing blanks: the longest stretch of x
\* from its first to its last non-blank character.
Unblanked(x) ==
    LET solid == {i \in 1..Len(x) : x[i] # " "} IN
    IF solid = {} THEN <<>>
    ELSE SubSeq(x, CHOOSE i \in solid : \A j \in solid : i <= j,
                   CHOOSE i \in solid : \A j \in solid : i >= j)

\* C12: for a non-empty address x, formatJid returns x without its outer blanks
\* when that ends in a canonical suffix, and otherwise the digits of x followed
\* by the user suffix; handed its own result, it returns it unchanged.
C12_FormatJidIdempotent ==
    /\ last.op \in {"formatJid", "formatJid:again"} =>
          LET x == Unblanked(last.req[1])
              y == last.log[1]
          IN  IF EndsWith(x, UserSuffix) \/ EndsWith(x, GroupSuffix)
              THEN y = x
              ELSE y = DigitsOf(last.req[1]) \o UserSuffix
    /\ last.op = "formatJid:again" => last.log[2] = last.log[1]

\* C12 witness: a typed phone number was normalized, and normalized again.
C12_Witness ==
    /\ last.op = "formatJid:again"
    /\ last.req[1] = <<"0", "-", "8">>
    /\ last.log[1] = <<"0", "8", "@", "s">>

\* C13: a send command without `to` or without `message` is answered with a
\* validation error whether or not the session is live, and calls no
\* sock.sendMessage, parks no handler and inserts no Message.
C13_SendValidatesFields ==
    [][(SendDispatched /\ (last'.req[1] = <<>> \/ last'.req[2] = ""))
       => /\ last'.out \in {<<Ev("caller", ErrorEv, last'.sid, "missing number/jid")>>,
                            <<Ev("caller", "400", last'.sid, "to and message required")>>}
          /\ wire' = wire
          /\ tasks' = tasks
          /\ messages' = messages]_vars

\* A REST request was dispatched in this step with its key absent or wrong.
BadKeyDispatched ==
    /\ ncmd' = ncmd + 1
    /\ last'.op \in {"api-send", "api-messages"}
    /\ last'.req[3] # API_KEY

\* C14: a REST request whose key is absent or wrong is answered 401 and changes
\* nothing: registry, handles, Session records, Message log, timers and parked
\* handlers are as before, and no sock.sendMessage is called.
C14_BadKeyNoEffect ==
    [][BadKeyDispatched
       => /\ last'.out = <<Unauthorized(last'.sid)>>
          /\ last'.log = <<>>
          /\ UNCHANGED <<SESSIONS, socks, sessions, messages, timers, tasks, wire>>]_vars

\* C14 witness: a request with a wrong key was just refused on a session that
\* is live.
C14_Witness ==
    /\ last.op \in {"api-send", "api-messages"}
    /\ last.req[3] = "wrong"
    /\ last.out = <<Unauthorized(last.sid)>>
    /\ Live(last.sid)

\* The messages of a session, oldest first.
Of(sessionId) == SelectSeq(messages, LAMBDA row : row.sessionId = sessionId)

\* C15: the history requested for a sessionId with a limit holds only that
\* session's messages, the newest first, and min(limit, count) of them.
C15_HistoryNewestFirst ==
    (last.op = "api-messages" /\ last.out # <<Unauthorized(last.sid)>>) =>
        LET mine == Of(last.sid)
            limit == ParseLimit(last.req[1])
        IN  /\ Len(last.log) = IF limit < Len(mine) THEN limit ELSE Len(mine)
            /\ \A i \in 1..Len(last.log) : last.log[i] = mine[Len(mine) + 1 - i]

\* C16: the 'loading' event of a start-session command reaches its caller
\* before any status event of the handle that this start made: when the handler
\* emits 'loading', the handle's listener has announced neither qr_received nor
\* connected nor a close.
C16_LoadingComesFirst ==
    [][\A t \in Parked("start", "h_upsert_ret") :
         (t.arg = "cmd" /\ last'.op = "start-session:emit"
            /\ tasks' = Swap(tasks, t, [t EXCEPT !.pc = "h_list"]))
         => socks[t.sock].told = "none"]_vars

\* The handle the registry holds for a sessionId dropped for a recoverable
\* cause: its listener announced `disconnected`, and no logout or later start
\* has replaced the entry.
Dropped(s) == Live(s) /\ socks[SESSIONS[s].sock].told = "disconnected"

\* C17: a session that dropped for a recoverable cause has a connection attempt
\* in flight or a reconnect timer pending, and a timer's attempt that throws
\* schedules the next timer.
C17_RetriesGoOn ==
    /\ [](\A s \in SessionIds :
            Dropped(s) => \/ timers[s] > 0
                          \/ \E t \in Starting : t.sid = s)
    /\ [][(last'.op = "start:throws" /\ last'.arg = "timer" /\ tasks' # tasks)
          => timers'[last'.sid] = timers[last'.sid] + 1]_vars

\* C18: a request-qr on an entry with a cached artifact replies that artifact
\* and opens nothing; without an entry or without a cached artifact it replies
\* no artifact and calls startBaileysSession, which parks a new start unless
\* the entry is live.
C18_RequestQrCachedOrStart ==
    [][\A s \in SessionIds :
         (last'.op = "request-qr" /\ last'.sid = s /\ ncmd' = ncmd + 1)
         => IF SESSIONS[s].lastQr # NoQr
            THEN /\ last'.out = <<QrEv(s, SESSIONS[s].lastQr)>>
                 /\ UNCHANGED <<SESSIONS, socks, tasks, sessions>>
            ELSE /\ last'.out = <<>>
                 /\ UNCHANGED <<SESSIONS, socks>>
                 /\ tasks' = IF Live(s) THEN tasks
                             ELSE Put(tasks, Task("start", s, "upsert", 0, "qr-cmd"))]_vars

\* C18 witness: a request-qr was just answered with the cached artifact.
C18_Witness ==
    /\ last.op = "request-qr"
    /\ SESSIONS[last.sid].lastQr # NoQr
    /\ last.out = <<QrEv(last.sid, SESSIONS[last.sid].lastQr)>>

\* The wire entry of the send a broadcast handler is parked on.
SendOf(u) == [sid |-> u.sid, sock |-> u.sock, to |-> formatJid(u.nums[u.i + 1])]

\* The send of entry t.i + 1 of broadcast handler t is over in this step, which
\* leaves the handler as u: the protocol rejected it and the error was
\* reported, or its Message row is now in the table.
EntryOver(t, u) ==
    \/ /\ t.pc = "bc_proto"
       /\ u.log = Append(t.log, Progress(t, "error"))
       /\ messages' = messages
    \/ /\ t.pc = "bc_insert"
       /\ u.log = Append(t.log, Progress(t, "sent"))
       /\ messages' = Append(messages, [sessionId |-> t.sid, direction |-> "out",
                                        to |-> formatJid(t.nums[t.i + 1])])

SendError(t) == Ev("caller", IF t.arg = "rest" THEN "500" ELSE ErrorEv, t.sid, "rejected")

\* C21: when the protocol rejects a send (as it does every send on a handle
\* that is not open), the handler ends in that step with exactly one event, the
\* error reply to its caller; no Message is appended, and the registry, the
\* handles, the Session records and the timers are as they were.
C21_RejectedSendOnlyReplies ==
    [][\A t \in Parked("send", "send_proto") :
         (Copies(tasks', t) < Copies(tasks, t)
            /\ (last'.op = "send:rejected" \/ socks[t.sock].st # "open"))
         => /\ tasks' = Del(tasks, t)
            /\ last'.out = <<SendError(t)>>
            /\ UNCHANGED <<SESSIONS, socks, sessions, messages, timers, wire>>]_vars

\* C21 witness: a send on a live session was just rejected, its error replied.
C21_Witness ==
    /\ last.op = "send:rejected"
    /\ Len(last.out) = 1
    /\ Live(last.sid)
    /\ sessions[last.sid].status = "connected"

\* The handlers in flight for a sessionId.
TasksOf(b, s) == {<<t, b[t]>> : t \in {u \in BagToSet(b) : u.sid = s}}

C23_StoreFailureDoesNotBlock ==
    [][/\ (last'.op = "start:throws" /\ last'.req = <<"upsert">> /\ tasks' # tasks)
          => NumStarting' = NumStarting
       /\ (last'.op = "conn:close-store-failed" /\ last'.arg = "loggedOut" /\ tasks' # tasks)
          => SESSIONS'[last'.sid] = NoEntry
       /\ (last'.op = "conn:close-store-failed" /\ last'.arg = "other" /\ tasks' # tasks)
          => timers'[last'.sid] = timers[last'.sid] + 1
       /\ (last'.op = "send:store-failed" /\ tasks' # tasks)
          => \E i \in 1..Len(last'.out) :
                last'.out[i].ev \in {"success-message", "message-sent", "200"}]_vars

\* C24: a failed store initialization is fatal: once it has failed the server
\* is not listening, no command was dispatched before the failure, and none is
\* dispatched after it.
C24_StartupFailureIsFatal ==
    /\ [](boot.db = "failed" => (~boot.listening /\ ncmd = 0))
    /\ [][boot.db = "failed" => ncmd' = ncmd]_vars

\* C27: the credential-store entry of a sessionId is removed only by a logout
\* whose caller asked for the purge: a logout that did not ask for it leaves the
\* entry as it is.
C27_PurgeOnlyOnRequest ==
    [][\A s \in AllIds :
         (creds[s] /\ ~creds'[s]) =>
            \E t \in BagToSet(tasks) :
                /\ t.kind = "logout" /\ t.sid = s
                /\ t.nums = <<TRUE>>
                /\ Copies(tasks', t) < Copies(tasks, t)]_vars

\* C25: when the listener of a delivered batch has returned, it has inserted
\* one Message row and emitted one 'message' event for every message of the
\* batch that has content and is not addressed to 'status@broadcast'.
C25_InboundLoggedOnce ==
    last.op = "inbound:done" =>
        LET n == Cardinality({i \in 1..Len(last.nums) : last.nums[i] = "text"}) IN
        /\ last.req = <<n>>
        /\ Len(last.log) = n
        /\ \A i \in 1..Len(last.log) : last.log[i].ev = "message"

\* The artifact handle k issued last.
LatestQr(k) == IF socks[k].qrs = 0 THEN NoQr ELSE [sock |-> k, no |-> socks[k].qrs]

\* C26: with no artifact of the session still being encoded, the artifact a
\* registry entry caches (the one a request-qr replies) is the one its own
\* handle issued last, and none when it has issued none.
C26_CachedQrIsLatest ==
    \A s \in SessionIds :
        (Live(s) /\ \A t \in Parked("conn", "qr_encode") : t.sid # s)
        => SESSIONS[s].lastQr = LatestQr(SESSIONS[s].sock)

\* C28: with the handle of the registry entry open, no handler of the session
\* in flight and no reconnect timer pending, the persisted status is connected.
C28_OpenMeansConnected ==
    \A s \in SessionIds :
        (Live(s) /\ socks[SESSIONS[s].sock].st = "open" /\ Quiet(s) /\ timers[s] = 0)
        => sessions[s].status = "connected"

\* C29: a step of the connection.update handler of a handle that is not the one
\* the registry holds for its sessionId leaves the registry entry of that
\* sessionId as it is.
C29_StaleHandleKeepsEntry ==
    [][\A t \in BagToSet(tasks) :
         (t.kind = "conn" /\ Copies(tasks', t) < Copies(tasks, t)
            /\ SESSIONS[t.sid].sock # t.sock)
         => SESSIONS'[t.sid] = SESSIONS[t.sid]]_vars

\* C30: after a logout of a sessionId has completed, and with no start command
\* since, sock.sendMessage is called for that sessionId no more.
C30_NoSendAfterLogout ==
    [][\A s \in SessionIds :
         (loggedOut[s] /\ Len(wire') > Len(wire)) => wire'[Len(wire')].sid # s]_vars

\* C31: at most one reconnect timer is pending per sessionId.
C31_OneTimerPerSession ==
    \A s \in AllIds : timers[s] <= 1


\* C32: every sessionId with an entry in the in-memory registry has a row in
\* the sessions table.
C32_RegisteredIsPersisted ==
    \A s \in AllIds : Live(s) => sessions[s] # NoRow

\* A handle has just been made and registered for a sessionId, whose row the
\* upsert before it has written.
C32_Witness ==
    /\ last.op = "start:make"
    /\ Live(last.sid)
    /\ sessions[last.sid] # NoRow


\* The events of a log that end a broadcast for its caller.
Terminals(log) ==
    {i \in 1..Len(log) : log[i].to = "caller" /\ log[i].ev \in {"broadcast-complete", ErrorEv}}

\* The broadcast handlers that have not ended.
NumBroadcasting ==
    BagCardinality([t \in {u \in BagToSet(tasks) : u.kind = "bcast"} |-> tasks[t]])

\* C33: a broadcast command ends with exactly one terminal event to its caller:
\* a handler that ends has sent one 'broadcast-complete' or one error event,
\* as its last event and not both; a handler ends only that way; and every
\* handler ends.
C33_BroadcastEndsOnce ==
    /\ [](last.op = "broadcast:done" => Terminals(last.log) = {Len(last.log)})
    /\ [][NumBroadcasting' < NumBroadcasting => last'.op = "broadcast:done"]_vars
    /\ <>[](NumBroadcasting = 0)

\* A broadcast to a full list has ended with 'broadcast-complete' after a
\* recipient whose send or insert failed.
C33_Witness ==
    /\ last.op = "broadcast:done"
    /\ Len(last.nums) = MaxRecipients
    /\ last.log[Len(last.log)].ev = "broadcast-complete"
    /\ \E i \in 1..Len(last.log) : last.log[i].ev = "broadcast-status" /\ last.log[i].val[1] = "error"


\* C34: app.js and server.js implement the same session state machine: the
\* same commands and protocol events leave the same registry, the same
\* persisted status per session and the same 'session' events in both.  The
\* handlers of the two files are the same steps but for the phone write of the
\* open branch, so: whichever file runs that step, the persisted status of the
\* session after it is the same.
C34_VariantsAgree ==
    [][last'.op = "conn:open-phone"
         => \A v \in Variants :
                PhoneWrite(v, sessions, last'.sid)[last'.sid].status
                    = sessions'[last'.sid].status]_vars
=============================================================================
